---- MODULE Spec2Model ----
(***************************************************************************)
(* A model of the MongoDB backend of cometbft-db: the store handle         *)
(* (mongodb.go), its write batch (MongoDBBatch) and its range iterator     *)
(* (mongodb_iterator.go).                                                  *)
(*                                                                         *)
(* The server holds BSON documents, each under the namespace of its       *)
(* collection; a collection is the set of documents of one namespace.      *)
(* The driver calls the code makes (FindOne, UpdateOne, DeleteOne,         *)
(* BulkWrite, Find and the cursor's Next/Decode) are operators on that     *)
(* set, written from what the call is given at its call site and from      *)
(* MongoDB's documented behaviour for it.  Single-document calls are       *)
(* answered by a responsive store; BulkWrite takes the index of the        *)
(* operation at which the store reports a failure (0: none), because       *)
(* MongoDBBatch.write has a branch for it.                                 *)
(* One caller drives the handle db, one batch and one iterator, and may    *)
(* open a second handle: each of its calls is one atomic step (the         *)
(* package holds no goroutine of its own).  Two goroutines that flush a    *)
(* batch each at the same time are modelled apart, with the server's       *)
(* application of one operation of a bulk write as the step.               *)
(***************************************************************************)
EXTENDS Integers, Sequences, FiniteSets, TLC

VARIABLES
    variant,     \* which body of MongoDB.set is built: "keyString" or "keyHex"
    store,       \* the documents the server holds, each with the namespace of
                 \* its collection: pairs <<namespace, document>>
    indexes,     \* the indexes the server holds: pairs <<namespace, field>>
    db2,         \* the second store handle of the caller, NoDB until it is opened
    g_batch,     \* the batch of each of two goroutines that flush at the same time:
                 \* its fields, where its Write() stands, the operations it gave
                 \* to BulkWrite and how many of them the server has applied
    last,        \* the last call made by the caller, with what it returned
    b_live,      \* a MongoDBBatch has been created with NewBatch
    b_ops,       \* MongoDBBatch.ops
    b_closed,    \* MongoDBBatch.closed
    b_issued,    \* history: the Set/Delete calls the batch accepted, in call order
    it_live,     \* a MongoDBIterator has been returned by createIterator
    it_cursor,   \* MongoDBIterator.cursor: the driver's cursor
    it_start,    \* MongoDBIterator.start
    it_end,      \* MongoDBIterator.end
    it_isReverse, \* MongoDBIterator.isReverse
    it_isInvalid, \* MongoDBIterator.isInvalid
    it_lastErr,  \* MongoDBIterator.lastErr
    it_current,  \* MongoDBIterator.current
    it_emitted   \* history: the keys Key() has returned, one entry for each
                 \* cursor position read, in call order

vars == <<variant, store, indexes, db2, g_batch, last, b_live, b_ops, b_closed, b_issued,
          it_live, it_cursor, it_start, it_end, it_isReverse, it_isInvalid,
          it_lastErr, it_current, it_emitted>>

batchVars == <<b_live, b_ops, b_closed, b_issued>>

iterVars == <<it_live, it_cursor, it_start, it_end, it_isReverse, it_isInvalid,
              it_lastErr, it_current, it_emitted>>

----------------------------------------------------------------------------
(* Byte slices.  A Go []byte is a sequence of bytes; the nil slice is the   *)
(* sentinel Nil, which is no sequence of bytes.  len(nil) is 0.             *)

Nil == <<-1>>

EmptyBytes == <<>>

len(b) == IF b = Nil THEN 0 ELSE Len(b)

\* The keys and values the caller passes: keys of two lengths, and the
\* zero-length value beside a non-empty one.
Keys == {<<1>>, <<2>>, <<3>>, <<1, 2>>}

Values == {<<>>, <<7>>}

KeyInputs == Keys \cup {Nil, EmptyBytes}

ValueInputs == Values \cup {Nil}

\* bytes.Compare(a, b) < 0: unsigned byte-lexicographic order, a proper
\* prefix first.
RECURSIVE BytesLess(_, _)
BytesLess(a, b) ==
    IF Len(b) = 0 THEN FALSE
    ELSE IF Len(a) = 0 THEN TRUE
    ELSE IF Head(a) # Head(b) THEN Head(a) < Head(b)
    ELSE BytesLess(Tail(a), Tail(b))

\* bytes.Compare(a, b): -1, 0 or 1.
BytesCompare(a, b) ==
    IF a = b THEN 0 ELSE IF BytesLess(a, b) THEN -1 ELSE 1

\* hex.EncodeToString: two hexadecimal digits per byte, high nibble first
\* (a digit is written as its value 0..15).
RECURSIVE HexEncodeToString(_)
HexEncodeToString(b) ==
    IF Len(b) = 0 THEN <<>>
    ELSE <<Head(b) \div 16, Head(b) % 16>> \o HexEncodeToString(Tail(b))

----------------------------------------------------------------------------
(* BSON values and documents.  bson.M{"f": x} encodes a non-nil []byte as   *)
(* Binary (subtype 0), a nil []byte as Null and a Go string as String.      *)
(* A document of the collection has the fields key, value, keyString and    *)
(* keyHex; a field it does not carry is BsonAbsent.                         *)

BsonAbsent == [t |-> "absent", b |-> <<>>]

BsonNull == [t |-> "null", b |-> <<>>]

BsonBinary(b) == [t |-> "binary", b |-> b]

BsonString(s) == [t |-> "string", b |-> s]

EncodeBytes(b) == IF b = Nil THEN BsonNull ELSE BsonBinary(b)

\* Decoding one field into a []byte element of map[string][]byte: Binary
\* gives its bytes, String the bytes of the string, Null the nil slice.
DecodeBytes(x) == IF x.t = "null" THEN Nil ELSE x.b

\* Decode(&result) into a map[string][]byte, read at "key" and "value": a
\* field the document does not carry reads as the nil slice.
DecodeDoc(d) ==
    [key   |-> IF d.key.t = "absent" THEN Nil ELSE DecodeBytes(d.key),
     value |-> IF d.value.t = "absent" THEN Nil ELSE DecodeBytes(d.value)]

NoDoc == [key |-> BsonAbsent, value |-> BsonAbsent,
          keyString |-> BsonAbsent, keyHex |-> BsonAbsent]

----------------------------------------------------------------------------
(* The calls on the backing collection.                                     *)

\* The documents an equality filter bson.M{"key": key} matches.
Matching(c, key) == {d \in c : d.key = EncodeBytes(key)}

\* collection.UpdateOne(filter {"key": key}, {"$set": fields}, upsert): one
\* matching document gets the fields set; with none matching, a document
\* made of the filter's key and the fields is inserted.
UpdateOne(c, key, fields) ==
    IF Matching(c, key) # {}
    THEN LET d == CHOOSE x \in Matching(c, key) : TRUE
         IN  (c \ {d}) \cup {[f \in DOMAIN d |->
                 IF f \in DOMAIN fields THEN fields[f] ELSE d[f]]}
    ELSE c \cup {[f \in DOMAIN NoDoc |->
                 IF f \in DOMAIN fields THEN fields[f]
                 ELSE IF f = "key" THEN EncodeBytes(key) ELSE NoDoc[f]]}

\* collection.DeleteOne(filter {"key": key}): one matching document, if any,
\* is removed.
DeleteOne(c, key) ==
    IF Matching(c, key) # {}
    THEN c \ {CHOOSE x \in Matching(c, key) : TRUE}
    ELSE c

\* collection.FindOne(filter {"key": key}).Decode(&result): the decoded
\* document, or mongo.ErrNoDocuments.
FindOne(c, key) ==
    IF Matching(c, key) # {}
    THEN [err |-> "ok", doc |-> DecodeDoc(CHOOSE x \in Matching(c, key) : TRUE)]
    ELSE [err |-> "ErrNoDocuments", doc |-> [key |-> Nil, value |-> Nil]]

\* The record set as the caller sees it: the decoded key and value of every
\* document.
Records(c) == {DecodeDoc(d) : d \in c}

----------------------------------------------------------------------------
(* MongoDB: the store handle.                                               *)

\* The "$set" document MongoDB.set sends: the keyString body (the first
\* definition in mongodb.go) or the keyHex body (the second).
SetFields(v, key, value) ==
    IF v = "keyHex"
    THEN [value |-> EncodeBytes(value), keyHex |-> BsonString(HexEncodeToString(key))]
    ELSE [value |-> EncodeBytes(value), keyString |-> BsonString(key)]

\* MongoDB.Get: (value, error).
Get(c, key) ==
    IF len(key) = 0 THEN [ret |-> Nil, err |-> "errKeyEmpty"]
    ELSE LET r == FindOne(c, key)
         IN  IF r.err # "ok" THEN [ret |-> Nil, err |-> "ok"]
             ELSE [ret |-> r.doc.value, err |-> "ok"]

\* MongoDB.Has: (bool, error).
Has(c, key) ==
    LET g == Get(c, key)
    IN  IF g.err # "ok" THEN [ret |-> FALSE, err |-> g.err]
        ELSE [ret |-> g.ret # Nil, err |-> "ok"]

\* MongoDB.set with "$push" in place of "$set": the value is appended to the
\* value the document holds.
set_PushValue(c, v, key, value, sync) ==
    IF len(key) = 0 THEN [err |-> "errKeyEmpty", coll |-> c]
    ELSE IF value = Nil THEN [err |-> "errValueNil", coll |-> c]
    ELSE [err |-> "ok",
          coll |-> IF Matching(c, key) # {}
                   THEN UpdateOne(c, key, SetFields(v, key, FindOne(c, key).doc.value \o value))
                   ELSE UpdateOne(c, key, SetFields(v, key, value))]

\* MongoDB.set without SetUpsert(true): a key with no document stays without.
set_NoUpsert(c, v, key, value, sync) ==
    IF len(key) = 0 THEN [err |-> "errKeyEmpty", coll |-> c]
    ELSE IF value = Nil THEN [err |-> "errValueNil", coll |-> c]
    ELSE [err |-> "ok",
          coll |-> IF Matching(c, key) # {}
                   THEN UpdateOne(c, key, SetFields(v, key, value)) ELSE c]

\* MongoDB.set with the value checked before the key.
set_ValueCheckedFirst(c, v, key, value, sync) ==
    IF value = Nil THEN [err |-> "errValueNil", coll |-> c]
    ELSE IF len(key) = 0 THEN [err |-> "errKeyEmpty", coll |-> c]
    ELSE [err |-> "ok", coll |-> UpdateOne(c, key, SetFields(v, key, value))]

\* MongoDB.set: the error it returns and the collection it leaves.  Both
\* db.collection and db.syncCollection are the collection CometBFT-DB/<name>;
\* sync selects the write concern only.
set(c, v, key, value, sync) ==
    IF len(key) = 0 THEN [err |-> "errKeyEmpty", coll |-> c]
    ELSE IF value = Nil THEN [err |-> "errValueNil", coll |-> c]
    ELSE [err |-> "ok", coll |-> UpdateOne(c, key, SetFields(v, key, value))]

\* MongoDB.delete reporting a key with no document as an error.
delete_ErrWhenMissing(c, key, sync) ==
    IF len(key) = 0 THEN [err |-> "errKeyEmpty", coll |-> c]
    ELSE IF Matching(c, key) = {} THEN [err |-> "ErrNoDocuments", coll |-> c]
    ELSE [err |-> "ok", coll |-> DeleteOne(c, key)]

\* MongoDB.delete.
delete(c, key, sync) ==
    IF len(key) = 0 THEN [err |-> "errKeyEmpty", coll |-> c]
    ELSE [err |-> "ok", coll |-> DeleteOne(c, key)]

\* The namespace a collection handle addresses: client.Database(database)
\* .Collection(name, opts...).  The write concern in opts is a property of the
\* handle, not of the namespace.
Namespace(database, name) == [database |-> database, name |-> name]

\* The names the caller opens stores under.
Names == {"a", "b"}

\* NewMongoDBWithOpts with the synchronous tier in a database of its own.
NewMongoDBWithOpts_SyncDatabase(name) ==
    [err |-> "ok",
     db  |-> [databaseName   |-> name,
              collectionName |-> name,
              collection     |-> Namespace("CometBFT-DB", name),
              syncCollection |-> Namespace("CometBFT-DB-sync", name)]]

\* NewMongoDBWithOpts: (handle, error).  The handle holds the collection of
\* the default tier and the collection of the synchronous tier.
NewMongoDBWithOpts(name) ==
    [err |-> "ok",
     db  |-> [databaseName   |-> name,
              collectionName |-> name,
              collection     |-> Namespace("CometBFT-DB", name),
              syncCollection |-> Namespace("CometBFT-DB", name)]]

\* NewMongoDB.
NewMongoDB(name) == NewMongoDBWithOpts(name)

\* The store handle the caller works with.
db == NewMongoDB("a").db

\* No handle.
NoDB == [databaseName |-> "", collectionName |-> "",
         collection |-> Namespace("", ""), syncCollection |-> Namespace("", "")]

\* ensureIndex: the index on indexKey is created unless the collection's list
\* of indexes holds it already.
ensureIndex(ix, collection, indexKey) ==
    [err |-> "ok", indexes |-> ix \cup {<<collection, indexKey>>}]

\* The indexes after NewMongoDBWithOpts: the body built with the keyHex field
\* ensures an index on "key" and one on "keyHex"; the other body ensures none.
ensureIndexes(v, ix, collection) ==
    IF v = "keyHex"
    THEN ensureIndex(ensureIndex(ix, collection, "key").indexes, collection, "keyHex").indexes
    ELSE ix

\* The collection a write goes to: collection := db.collection;
\* if sync { collection = db.syncCollection }.
Target(h, sync) == IF sync THEN h.syncCollection ELSE h.collection

\* The documents the server holds under a namespace.
Docs(ns) == {p[2] : p \in {q \in store : q[1] = ns}}

\* The server's documents when those under ns have become docs.
PutDocs(ns, docs) == {q \in store : q[1] # ns} \cup {<<ns, d>> : d \in docs}

\* The documents of db.collection, which Get, Has and the iterators read.
coll == Docs(db.collection)

\* What the caller's last call was and what it returned.
Call(op, key, value, err, ret, flag) ==
    [op |-> op, key |-> key, value |-> value, err |-> err, ret |-> ret, flag |-> flag]

NoCall == Call("none", Nil, Nil, "ok", Nil, FALSE)

DBGet(key) ==
    /\ last' = Call("Get", key, Nil, Get(coll, key).err, Get(coll, key).ret, FALSE)
    /\ UNCHANGED <<variant, g_batch, store, indexes, db2, batchVars, iterVars>>

DBHas(key) ==
    /\ last' = Call("Has", key, Nil, Has(coll, key).err, Nil, Has(coll, key).ret)
    /\ UNCHANGED <<variant, g_batch, store, indexes, db2, batchVars, iterVars>>

DBSet(key, value) ==
    /\ LET target == Target(db, FALSE)
           r == set(Docs(target), variant, key, value, FALSE)
       IN  /\ store' = PutDocs(target, r.coll)
           /\ last' = Call("Set", key, value, r.err, Nil, FALSE)
    /\ UNCHANGED <<variant, g_batch, indexes, db2, batchVars, iterVars>>

DBSetSync(key, value) ==
    /\ LET target == Target(db, TRUE)
           r == set(Docs(target), variant, key, value, TRUE)
       IN  /\ store' = PutDocs(target, r.coll)
           /\ last' = Call("SetSync", key, value, r.err, Nil, FALSE)
    /\ UNCHANGED <<variant, g_batch, indexes, db2, batchVars, iterVars>>

\* Delete and DeleteSync: flag records whether a document matched the key
\* (the DeleteResult the code drops).
DBDelete(key) ==
    /\ LET target == Target(db, FALSE)
           r == delete(Docs(target), key, FALSE)
       IN  /\ store' = PutDocs(target, r.coll)
           /\ last' = Call("Delete", key, Nil, r.err, Nil, Matching(Docs(target), key) # {})
    /\ UNCHANGED <<variant, g_batch, indexes, db2, batchVars, iterVars>>

DBDeleteSync(key) ==
    /\ LET target == Target(db, TRUE)
           r == delete(Docs(target), key, TRUE)
       IN  /\ store' = PutDocs(target, r.coll)
           /\ last' = Call("DeleteSync", key, Nil, r.err, Nil, Matching(Docs(target), key) # {})
    /\ UNCHANGED <<variant, g_batch, indexes, db2, batchVars, iterVars>>

\* NewMongoDB refusing a name under which a handle is open, as a store that
\* locks its directory does.
DB2Open_Exclusive(name) ==
    /\ db2' = IF name = db.collectionName THEN NoDB ELSE NewMongoDB(name).db
    /\ indexes' = indexes
    /\ last' = Call("NewMongoDB", Nil, Nil,
                     IF name = db.collectionName THEN "errLocked" ELSE "ok", Nil, FALSE)
    /\ UNCHANGED <<variant, g_batch, store, batchVars, iterVars>>

\* The caller opens a second handle under a name (dropping the one it held):
\* wr2, err := NewMongoDB(name, uri).
DB2Open(name) ==
    /\ LET r == NewMongoDB(name)
       IN  /\ db2' = r.db
           /\ indexes' = ensureIndexes(variant, indexes, r.db.collection)
           /\ last' = Call("NewMongoDB", Nil, Nil, r.err, Nil, FALSE)
    /\ UNCHANGED <<variant, g_batch, store, batchVars, iterVars>>

\* Get, Set and Delete through the second handle.
DB2Get(key) ==
    /\ db2 # NoDB
    /\ LET r == Get(Docs(db2.collection), key)
       IN  last' = Call("DB2.Get", key, Nil, r.err, r.ret, FALSE)
    /\ UNCHANGED <<variant, g_batch, store, indexes, db2, batchVars, iterVars>>

DB2Set(key, value) ==
    /\ db2 # NoDB
    /\ LET target == Target(db2, FALSE)
           r == set(Docs(target), variant, key, value, FALSE)
       IN  /\ store' = PutDocs(target, r.coll)
           /\ last' = Call("DB2.Set", key, value, r.err, Nil, FALSE)
    /\ UNCHANGED <<variant, g_batch, indexes, db2, batchVars, iterVars>>

DB2Delete(key) ==
    /\ db2 # NoDB
    /\ LET target == Target(db2, FALSE)
           r == delete(Docs(target), key, FALSE)
       IN  /\ store' = PutDocs(target, r.coll)
           /\ last' = Call("DB2.Delete", key, Nil, r.err, Nil, Matching(Docs(target), key) # {})
    /\ UNCHANGED <<variant, g_batch, indexes, db2, batchVars, iterVars>>

----------------------------------------------------------------------------
(* MongoDBBatch.  A write model of b.ops is an UpdateOneModel (upsert, the   *)
(* filter's key, the "$set" document) or a DeleteOneModel (the filter's     *)
(* key; it carries no update).                                              *)

NoUpdate == [value |-> BsonAbsent, keyString |-> BsonAbsent]

UpdateOneModel(key, fields) ==
    [kind |-> "UpdateOne", upsert |-> TRUE, key |-> key, update |-> fields]

DeleteOneModel(key) ==
    [kind |-> "DeleteOne", upsert |-> FALSE, key |-> key, update |-> NoUpdate]

\* The most operations the caller buffers in one batch.
MaxOps == 3

\* The keys the caller uses with a batch.
BatchKeys == {<<1>>, <<1, 2>>}

BatchKeyInputs == BatchKeys \cup {EmptyBytes}

\* One write model applied to the collection.
ApplyModel(c, m) ==
    IF m.kind = "UpdateOne" THEN UpdateOne(c, m.key, m.update)
    ELSE DeleteOne(c, m.key)

RECURSIVE ApplyModels(_, _)
ApplyModels(c, ops) ==
    IF Len(ops) = 0 THEN c
    ELSE ApplyModels(ApplyModel(c, Head(ops)), Tail(ops))

\* collection.BulkWrite(ops, ordered): the operations are applied in the
\* order of the list.  failAt = 0: all of them, no error.  failAt = i > 0: the
\* store reports a failure at operation i; the operations before it stay
\* applied and the rest are not attempted.
BulkWrite(c, ops, failAt) ==
    IF failAt = 0 THEN [err |-> "ok", coll |-> ApplyModels(c, ops)]
    ELSE [err |-> "errBulkWrite", coll |-> ApplyModels(c, SubSeq(ops, 1, failAt - 1))]

\* MongoDBBatch.Set: the error and the operation list it leaves.
BatchSetResult(ops, closed, key, value) ==
    IF len(key) = 0 THEN [err |-> "errKeyEmpty", ops |-> ops]
    ELSE IF value = Nil THEN [err |-> "errValueNil", ops |-> ops]
    ELSE IF closed THEN [err |-> "errBatchClosed", ops |-> ops]
    ELSE [err |-> "ok",
          ops |-> Append(ops, UpdateOneModel(key,
                     [value |-> EncodeBytes(value), keyString |-> BsonString(key)]))]

\* MongoDBBatch.Delete putting its operation at the head of the list.
BatchDeleteResult_Prepend(ops, closed, key) ==
    IF len(key) = 0 THEN [err |-> "errKeyEmpty", ops |-> ops]
    ELSE IF closed THEN [err |-> "errBatchClosed", ops |-> ops]
    ELSE [err |-> "ok", ops |-> <<DeleteOneModel(key)>> \o ops]

\* MongoDBBatch.Delete.
BatchDeleteResult(ops, closed, key) ==
    IF len(key) = 0 THEN [err |-> "errKeyEmpty", ops |-> ops]
    ELSE IF closed THEN [err |-> "errBatchClosed", ops |-> ops]
    ELSE [err |-> "ok", ops |-> Append(ops, DeleteOneModel(key))]

\* MongoDBBatch.write: the error, the collection, the operation list and the
\* closed flag it leaves; called tells whether BulkWrite was called.
write(c, ops, closed, sync, failAt) ==
    IF closed
    THEN [err |-> "errBatchClosed", coll |-> c, ops |-> ops, closed |-> closed,
          called |-> FALSE]
    ELSE IF Len(ops) # 0 /\ BulkWrite(c, ops, failAt).err # "ok"
    THEN [err |-> BulkWrite(c, ops, failAt).err, coll |-> BulkWrite(c, ops, failAt).coll,
          ops |-> ops, closed |-> closed, called |-> TRUE]
    ELSE [err |-> "ok",
          coll |-> IF Len(ops) # 0 THEN BulkWrite(c, ops, failAt).coll ELSE c,
          ops |-> <<>>, closed |-> TRUE, called |-> Len(ops) # 0]

\* MongoDB.NewBatch / newMongoDBBatch: a fresh batch (the caller drops the
\* one it held).
NewBatch ==
    /\ b_live' = TRUE
    /\ b_ops' = <<>>
    /\ b_closed' = FALSE
    /\ b_issued' = <<>>
    /\ last' = Call("NewBatch", Nil, Nil, "ok", Nil, FALSE)
    /\ UNCHANGED <<variant, g_batch, store, indexes, db2, iterVars>>

BatchSet(key, value) ==
    /\ b_live
    /\ Len(b_ops) < MaxOps
    /\ LET r == BatchSetResult(b_ops, b_closed, key, value)
       IN  /\ b_ops' = r.ops
           /\ b_issued' = IF r.err = "ok"
                          THEN Append(b_issued, [op |-> "Set", key |-> key, value |-> value])
                          ELSE b_issued
           /\ last' = Call("BatchSet", key, value, r.err, Nil, b_closed)
    /\ UNCHANGED <<variant, g_batch, store, indexes, db2, b_live, b_closed, iterVars>>

BatchDelete(key) ==
    /\ b_live
    /\ Len(b_ops) < MaxOps
    /\ LET r == BatchDeleteResult(b_ops, b_closed, key)
       IN  /\ b_ops' = r.ops
           /\ b_issued' = IF r.err = "ok"
                          THEN Append(b_issued, [op |-> "Delete", key |-> key, value |-> Nil])
                          ELSE b_issued
           /\ last' = Call("BatchDelete", key, Nil, r.err, Nil, b_closed)
    /\ UNCHANGED <<variant, g_batch, store, indexes, db2, b_live, b_closed, iterVars>>

\* Write() and WriteSync(): flag records whether BulkWrite was called.
BatchWrite(failAt) ==
    /\ b_live
    /\ LET target == Target(db, FALSE)
           r == write(Docs(target), b_ops, b_closed, FALSE, failAt)
       IN  /\ store' = PutDocs(target, r.coll)
           /\ b_ops' = r.ops
           /\ b_closed' = r.closed
           /\ last' = Call("BatchWrite", Nil, Nil, r.err, Nil, r.called)
    /\ UNCHANGED <<variant, g_batch, indexes, db2, b_live, b_issued, iterVars>>

BatchWriteSync(failAt) ==
    /\ b_live
    /\ LET target == Target(db, TRUE)
           r == write(Docs(target), b_ops, b_closed, TRUE, failAt)
       IN  /\ store' = PutDocs(target, r.coll)
           /\ b_ops' = r.ops
           /\ b_closed' = r.closed
           /\ last' = Call("BatchWriteSync", Nil, Nil, r.err, Nil, r.called)
    /\ UNCHANGED <<variant, g_batch, indexes, db2, b_live, b_issued, iterVars>>

\* A Close that flushes the buffered operations before it ends the batch.
BatchClose_Flush ==
    /\ b_live
    /\ store' = PutDocs(Target(db, FALSE),
                        write(Docs(Target(db, FALSE)), b_ops, b_closed, FALSE, 0).coll)
    /\ b_ops' = <<>>
    /\ b_closed' = TRUE
    /\ b_issued' = <<>>
    /\ last' = Call("BatchClose", Nil, Nil, "ok", Nil, FALSE)
    /\ UNCHANGED <<variant, g_batch, indexes, db2, b_live, iterVars>>

\* MongoDBBatch.Close.
BatchClose ==
    /\ b_live
    /\ b_ops' = <<>>
    /\ b_closed' = TRUE
    /\ b_issued' = <<>>
    /\ last' = Call("BatchClose", Nil, Nil, "ok", Nil, FALSE)
    /\ UNCHANGED <<variant, g_batch, store, indexes, db2, b_live, iterVars>>

----------------------------------------------------------------------------
(* Two goroutines, each with a batch of its own on db, that call Write()    *)
(* at the same time.  MongoDBBatch.write holds no lock and opens no         *)
(* session or transaction: BulkWrite hands the list to the server, which    *)
(* applies an ordered list one operation after the other, each operation    *)
(* atomic on its document and the list as a whole not isolated from the     *)
(* writes of other clients.  The server's application of one operation is   *)
(* therefore one step.                                                      *)

Goroutines == {"g1", "g2"}

\* The most operations a goroutine buffers, the keys it sets, the key it
\* deletes and the value it writes.
MaxFlushOps == 2

FlushKeys == {<<1>>, <<2>>}

FlushDeleteKeys == {<<1>>}

FlushValue(g) == IF g = "g1" THEN <<7>> ELSE <<>>

\* newMongoDBBatch, and Write() not yet called.
NoGBatch == [ops |-> <<>>, closed |-> FALSE, pc |-> "idle", sent |-> <<>>, applied |-> 0]

GSet(g, key) ==
    /\ g_batch[g].pc = "idle"
    /\ Len(g_batch[g].ops) < MaxFlushOps
    /\ g_batch' = [g_batch EXCEPT ![g].ops =
                      BatchSetResult(g_batch[g].ops, g_batch[g].closed, key, FlushValue(g)).ops]
    /\ UNCHANGED <<variant, store, indexes, db2, last, batchVars, iterVars>>

GDelete(g, key) ==
    /\ g_batch[g].pc = "idle"
    /\ Len(g_batch[g].ops) < MaxFlushOps
    /\ g_batch' = [g_batch EXCEPT ![g].ops =
                      BatchDeleteResult(g_batch[g].ops, g_batch[g].closed, key).ops]
    /\ UNCHANGED <<variant, store, indexes, db2, last, batchVars, iterVars>>

\* write up to its call of BulkWrite: a batch with no operation is closed
\* without a call of the driver.
GWrite(g) ==
    /\ g_batch[g].pc = "idle"
    /\ ~g_batch[g].closed
    /\ g_batch' = IF Len(g_batch[g].ops) # 0
                  THEN [g_batch EXCEPT ![g].pc = "BulkWrite",
                                       ![g].sent = g_batch[g].ops,
                                       ![g].applied = 0]
                  ELSE [g_batch EXCEPT ![g].closed = TRUE, ![g].pc = "returned"]
    /\ UNCHANGED <<variant, store, indexes, db2, last, batchVars, iterVars>>

\* The server applies the next operation of the list a goroutine sent.
GApply(g) ==
    /\ g_batch[g].pc = "BulkWrite"
    /\ g_batch[g].applied < Len(g_batch[g].sent)
    /\ LET target == Target(db, FALSE)
       IN  store' = PutDocs(target,
                       ApplyModel(Docs(target), g_batch[g].sent[g_batch[g].applied + 1]))
    /\ g_batch' = [g_batch EXCEPT ![g].applied = g_batch[g].applied + 1]
    /\ UNCHANGED <<variant, indexes, db2, last, batchVars, iterVars>>

\* BulkWrite returns with no error: write sets b.closed and calls Close.
GReturn(g) ==
    /\ g_batch[g].pc = "BulkWrite"
    /\ g_batch[g].applied = Len(g_batch[g].sent)
    /\ g_batch' = [g_batch EXCEPT ![g].ops = <<>>, ![g].closed = TRUE, ![g].pc = "returned"]
    /\ UNCHANGED <<variant, store, indexes, db2, last, batchVars, iterVars>>

----------------------------------------------------------------------------
(* The driver's cursor.  Find answers with its first batch, which holds the *)
(* whole result for a collection of this size: the cursor is the list of    *)
(* the documents that matched when Find ran, in sort order, and pos is the  *)
(* place of cursor.Current in it (0: no current document).                  *)

NoCursor == [docs |-> <<>>, pos |-> 0]

\* The order MongoDB gives BinData values in a filter ($gte, $lt) and in a
\* sort: the length of the data first, then the subtype (0 for every key
\* here), then the bytes.
BinDataLess(a, b) ==
    \/ Len(a) < Len(b)
    \/ Len(a) = Len(b) /\ BytesLess(a, b)

\* The filter createIterator builds from (start, end), applied to one
\* document.
FilterMatches(d, start, end) ==
    /\ start # Nil => ~BinDataLess(d.key.b, start)
    /\ end # Nil => BinDataLess(d.key.b, end)

\* SetSort(bson.M{"key": sortDirection}): ascending for 1, descending for -1.
RECURSIVE SortDocs(_, _)
SortDocs(S, sortDirection) ==
    IF S = {} THEN <<>>
    ELSE LET first == CHOOSE d \in S : \A e \in S \ {d} :
                          IF sortDirection = 1 THEN BinDataLess(d.key.b, e.key.b)
                          ELSE BinDataLess(e.key.b, d.key.b)
         IN  <<first>> \o SortDocs(S \ {first}, sortDirection)

\* collection.Find(filter, sort): the cursor, before its first Next.
Find(c, start, end, sortDirection) ==
    [docs |-> SortDocs({d \in c : FilterMatches(d, start, end)}, sortDirection),
     pos  |-> 0]

\* cursor.Next(): moves to the next document of the result, if there is one.
CursorNext(cur) ==
    IF cur.pos < Len(cur.docs)
    THEN [ok |-> TRUE, cursor |-> [cur EXCEPT !.pos = cur.pos + 1]]
    ELSE [ok |-> FALSE, cursor |-> cur]

\* cursor.Decode(&itr.current): decodes cursor.Current; with no current
\* document there is nothing to unmarshal and it returns an error.
CursorDecode(cur) ==
    IF cur.pos = 0 THEN [err |-> "errDecode", doc |-> [key |-> Nil, value |-> Nil]]
    ELSE [err |-> "ok", doc |-> DecodeDoc(cur.docs[cur.pos])]

----------------------------------------------------------------------------
(* MongoDBIterator.                                                         *)

\* The iterator the caller holds, as one record.
Itr ==
    [cursor |-> it_cursor, start |-> it_start, end |-> it_end,
     isReverse |-> it_isReverse, isInvalid |-> it_isInvalid,
     lastErr |-> it_lastErr, current |-> it_current]

NoItr ==
    [cursor |-> NoCursor, start |-> Nil, end |-> Nil, isReverse |-> FALSE,
     isInvalid |-> FALSE, lastErr |-> "ok", current |-> [key |-> Nil, value |-> Nil]]

\* newMongoDBIterator.
newMongoDBIterator(cursor, start, end, isReverse) ==
    [cursor |-> cursor, start |-> start, end |-> end, isReverse |-> isReverse,
     isInvalid |-> FALSE, lastErr |-> "ok", current |-> [key |-> Nil, value |-> Nil]]

\* MongoDBIterator.Error.
Error(itr) == itr.lastErr

\* A Valid that moves the cursor to its next document before it answers.
Valid_Advancing(itr) ==
    IF itr.isInvalid THEN [ret |-> FALSE, itr |-> itr]
    ELSE IF ~CursorNext(itr.cursor).ok
    THEN [ret |-> FALSE, itr |-> [itr EXCEPT !.isInvalid = TRUE]]
    ELSE [ret |-> TRUE,
          itr |-> [itr EXCEPT !.cursor = CursorNext(itr.cursor).cursor,
                              !.current = CursorDecode(CursorNext(itr.cursor).cursor).doc]]

\* MongoDBIterator.Valid without its first test, of itr.isInvalid.
Valid_NoFlagCheck(itr) ==
    IF Error(itr) # "ok"
    THEN [ret |-> FALSE, itr |-> [itr EXCEPT !.isInvalid = TRUE]]
    ELSE IF CursorDecode(itr.cursor).err # "ok"
    THEN [ret |-> FALSE,
          itr |-> [itr EXCEPT !.lastErr = CursorDecode(itr.cursor).err,
                              !.isInvalid = TRUE]]
    ELSE LET cur == CursorDecode(itr.cursor).doc
         IN  IF \/ itr.isReverse /\ itr.start # Nil /\ BytesCompare(cur.key, itr.start) < 0
                \/ ~itr.isReverse /\ itr.end # Nil /\ BytesCompare(itr.end, cur.key) <= 0
             THEN [ret |-> FALSE, itr |-> [itr EXCEPT !.current = cur, !.isInvalid = TRUE]]
             ELSE [ret |-> TRUE, itr |-> [itr EXCEPT !.current = cur]]

\* MongoDBIterator.Valid: what it returns and the iterator it leaves.
Valid(itr) ==
    IF itr.isInvalid THEN [ret |-> FALSE, itr |-> itr]
    ELSE IF Error(itr) # "ok"
    THEN [ret |-> FALSE, itr |-> [itr EXCEPT !.isInvalid = TRUE]]
    ELSE IF CursorDecode(itr.cursor).err # "ok"
    THEN [ret |-> FALSE,
          itr |-> [itr EXCEPT !.lastErr = CursorDecode(itr.cursor).err,
                              !.isInvalid = TRUE]]
    ELSE LET cur == CursorDecode(itr.cursor).doc
             key == cur.key
         IN  IF itr.isReverse
             THEN IF itr.start # Nil /\ BytesCompare(key, itr.start) < 0
                  THEN [ret |-> FALSE,
                        itr |-> [itr EXCEPT !.current = cur, !.isInvalid = TRUE]]
                  ELSE [ret |-> TRUE, itr |-> [itr EXCEPT !.current = cur]]
             ELSE IF itr.end # Nil /\ BytesCompare(itr.end, key) <= 0
                  THEN [ret |-> FALSE,
                        itr |-> [itr EXCEPT !.current = cur, !.isInvalid = TRUE]]
                  ELSE [ret |-> TRUE, itr |-> [itr EXCEPT !.current = cur]]

\* MongoDBIterator.assertIsValid reading the isInvalid flag instead of
\* calling Valid.
assertIsValid_FlagOnly(itr) == [panic |-> itr.isInvalid, itr |-> itr]

\* MongoDBIterator.assertIsValid: whether it panics, and the iterator its
\* call of Valid leaves.
assertIsValid(itr) == [panic |-> ~Valid(itr).ret, itr |-> Valid(itr).itr]

\* MongoDBIterator.Key: the key it returns, or the panic.
Key(itr) ==
    LET a == assertIsValid(itr)
    IN  IF a.panic THEN [err |-> "panic", ret |-> Nil, itr |-> a.itr]
        ELSE [err |-> "ok", ret |-> a.itr.current.key, itr |-> a.itr]

\* MongoDBIterator.Value.
Value(itr) ==
    LET a == assertIsValid(itr)
    IN  IF a.panic THEN [err |-> "panic", ret |-> Nil, itr |-> a.itr]
        ELSE [err |-> "ok", ret |-> a.itr.current.value, itr |-> a.itr]

\* MongoDBIterator.Next.
IterNext(itr) ==
    LET a == assertIsValid(itr)
        n == CursorNext(a.itr.cursor)
    IN  IF a.panic THEN [err |-> "panic", itr |-> a.itr]
        ELSE IF ~n.ok THEN [err |-> "ok", itr |-> [a.itr EXCEPT !.isInvalid = TRUE]]
        ELSE IF CursorDecode(n.cursor).err # "ok"
        THEN [err |-> "panic", itr |-> [a.itr EXCEPT !.cursor = n.cursor]]
        ELSE [err |-> "ok",
              itr |-> [a.itr EXCEPT !.cursor = n.cursor,
                                    !.current = CursorDecode(n.cursor).doc]]

\* MongoDB.createIterator refusing every bound of length 0, the nil one too.
createIterator_LenOnly(c, start, end, sortDirection) ==
    IF len(start) = 0 \/ len(end) = 0
    THEN [err |-> "errKeyEmpty", opened |-> FALSE, itr |-> NoItr]
    ELSE [err |-> "ok", opened |-> TRUE,
          itr |-> newMongoDBIterator(
                      CursorNext(Find(c, start, end, sortDirection)).cursor,
                      start, end, sortDirection = -1)]

\* MongoDB.createIterator: the error, whether Find opened a cursor, and the
\* iterator returned (none with an error).
createIterator(c, start, end, sortDirection) ==
    IF (start # Nil /\ len(start) = 0) \/ (end # Nil /\ len(end) = 0)
    THEN [err |-> "errKeyEmpty", opened |-> FALSE, itr |-> NoItr]
    ELSE [err |-> "ok", opened |-> TRUE,
          itr |-> newMongoDBIterator(
                      CursorNext(Find(c, start, end, sortDirection)).cursor,
                      start, end, sortDirection = -1)]

\* The caller takes the iterator a call leaves.
SetItr(itr) ==
    /\ it_cursor' = itr.cursor
    /\ it_start' = itr.start
    /\ it_end' = itr.end
    /\ it_isReverse' = itr.isReverse
    /\ it_isInvalid' = itr.isInvalid
    /\ it_lastErr' = itr.lastErr
    /\ it_current' = itr.current

\* MongoDB.Iterator(start, end): flag records whether a cursor was opened.
\* The caller opens one iterator and keeps it.
DBIterator(start, end) ==
    /\ ~it_live
    /\ LET r == createIterator(coll, start, end, 1)
       IN  /\ SetItr(r.itr)
           /\ it_live' = (r.err = "ok")
           /\ last' = Call("Iterator", start, end, r.err, Nil, r.opened)
    /\ it_emitted' = <<>>
    /\ UNCHANGED <<variant, g_batch, store, indexes, db2, batchVars>>

\* MongoDB.ReverseIterator(start, end).
DBReverseIterator(start, end) ==
    /\ ~it_live
    /\ LET r == createIterator(coll, start, end, -1)
       IN  /\ SetItr(r.itr)
           /\ it_live' = (r.err = "ok")
           /\ last' = Call("ReverseIterator", start, end, r.err, Nil, r.opened)
    /\ it_emitted' = <<>>
    /\ UNCHANGED <<variant, g_batch, store, indexes, db2, batchVars>>

ItValid ==
    /\ it_live
    /\ SetItr(Valid(Itr).itr)
    /\ last' = Call("Valid", Nil, Nil, "ok", Nil, Valid(Itr).ret)
    /\ UNCHANGED <<variant, g_batch, store, indexes, db2, batchVars, it_live, it_emitted>>

\* Key(): a key it returns is appended to the history unless the history
\* already ends with this cursor position.
ItKey ==
    /\ it_live
    /\ SetItr(Key(Itr).itr)
    /\ last' = Call("Key", Nil, Nil, Key(Itr).err, Key(Itr).ret, FALSE)
    /\ it_emitted' =
           IF Key(Itr).err # "ok" THEN it_emitted
           ELSE IF Len(it_emitted) > 0 /\ it_emitted[Len(it_emitted)].pos = it_cursor.pos
           THEN it_emitted
           ELSE Append(it_emitted, [pos |-> it_cursor.pos, key |-> Key(Itr).ret])
    /\ UNCHANGED <<variant, g_batch, store, indexes, db2, batchVars, it_live>>

ItValue ==
    /\ it_live
    /\ SetItr(Value(Itr).itr)
    /\ last' = Call("Value", Nil, Nil, Value(Itr).err, Value(Itr).ret, FALSE)
    /\ UNCHANGED <<variant, g_batch, store, indexes, db2, batchVars, it_live, it_emitted>>

ItNext ==
    /\ it_live
    /\ SetItr(IterNext(Itr).itr)
    /\ last' = Call("Next", Nil, Nil, IterNext(Itr).err, Nil, FALSE)
    /\ UNCHANGED <<variant, g_batch, store, indexes, db2, batchVars, it_live, it_emitted>>

\* The keys of the history.
EmittedKeys == [i \in 1..Len(it_emitted) |-> it_emitted[i].key]

InitBatchVars ==
    /\ b_live = FALSE
    /\ b_ops = <<>>
    /\ b_closed = FALSE
    /\ b_issued = <<>>

InitIterVars ==
    /\ it_live = FALSE
    /\ it_cursor = NoCursor
    /\ it_start = Nil
    /\ it_end = Nil
    /\ it_isReverse = FALSE
    /\ it_isInvalid = FALSE
    /\ it_lastErr = "ok"
    /\ it_current = [key |-> Nil, value |-> Nil]
    /\ it_emitted = <<>>

\* The caller has opened db on a server that holds no document yet.
Init ==
    /\ variant \in {"keyString", "keyHex"}
    /\ store = {}
    /\ indexes = ensureIndexes(variant, {}, db.collection)
    /\ db2 = NoDB
    /\ g_batch = [g \in Goroutines |-> NoGBatch]
    /\ last = NoCall
    /\ InitBatchVars
    /\ InitIterVars

NextKV ==
    \/ \E key \in KeyInputs : DBGet(key)
    \/ \E key \in KeyInputs : DBHas(key)
    \/ \E key \in KeyInputs, value \in ValueInputs : DBSet(key, value)
    \/ \E key \in KeyInputs, value \in ValueInputs : DBSetSync(key, value)
    \/ \E key \in KeyInputs : DBDelete(key)
    \/ \E key \in KeyInputs : DBDeleteSync(key)

\* The store handle alone: Get, Has, Set, SetSync, Delete, DeleteSync.
SpecKV == Init /\ [][NextKV]_vars

NextBatch ==
    \/ NewBatch
    \/ \E key \in BatchKeyInputs, value \in ValueInputs : BatchSet(key, value)
    \/ \E key \in BatchKeyInputs : BatchDelete(key)
    \/ \E failAt \in 0..Len(b_ops) : BatchWrite(failAt)
    \/ \E failAt \in 0..Len(b_ops) : BatchWriteSync(failAt)
    \/ BatchClose

\* The keys, values and bounds the caller uses beside an open iterator.
IterKeys == {<<1>>, <<2>>, <<1, 2>>}

IterValues == {<<7>>}

BoundInputs == IterKeys \cup {Nil, EmptyBytes}

NextIter ==
    \/ \E key \in IterKeys, value \in IterValues : DBSet(key, value)
    \/ \E key \in IterKeys : DBDelete(key)
    \/ \E start \in BoundInputs, end \in BoundInputs : DBIterator(start, end)
    \/ \E start \in BoundInputs, end \in BoundInputs : DBReverseIterator(start, end)
    \/ ItValid
    \/ ItKey
    \/ ItValue
    \/ ItNext

\* No call of an iterator reads the derived key field.
InitIter == Init /\ variant = "keyString"

\* An iterator used in any order, with writes to the store between its steps.
SpecIter == InitIter /\ [][NextIter]_vars

\* The bounds of a scan: absent, or a key.
ScanBounds == Keys \cup {Nil}

IterOps == {"Iterator", "ReverseIterator"}

\* The caller's loop over an iterator: for ; itr.Valid(); itr.Next() { itr.Key() }.
NextScan ==
    \/ \E key \in Keys, value \in IterValues : ~it_live /\ DBSet(key, value)
    \/ \E start \in ScanBounds, end \in ScanBounds : DBIterator(start, end)
    \/ \E start \in ScanBounds, end \in ScanBounds : DBReverseIterator(start, end)
    \/ (last.op \in IterOps \cup {"Next"} /\ last.err = "ok") /\ ItValid
    \/ (last.op = "Valid" /\ last.flag) /\ ItKey
    \/ (last.op = "Key" /\ last.err = "ok") /\ ItNext

\* Records are stored, then one iterator is opened and stepped to its end over
\* the unchanged collection.
SpecScan == InitIter /\ [][NextScan]_vars

\* No call of a batch reads which body of MongoDB.set is built.
InitBatch == Init /\ variant = "keyString"

\* Batches on the store handle, one after the other: a batch finds the
\* records the batches before it left.
SpecBatch == InitBatch /\ [][NextBatch]_vars

\* The longest batch, the keys and the values of a caller that writes both
\* through the handle and through a batch.
MaxMixOps == 2

MixKeys == {<<1>>, <<1, 2>>}

MixValues == {<<>>, <<7>>}

NextMix ==
    \/ \E key \in MixKeys, value \in MixValues : DBSet(key, value)
    \/ \E key \in MixKeys, value \in MixValues : DBSetSync(key, value)
    \/ \E key \in MixKeys : DBDelete(key)
    \/ \E key \in MixKeys : DBDeleteSync(key)
    \/ NewBatch
    \/ \E key \in MixKeys : Len(b_ops) < MaxMixOps /\ BatchSet(key, <<7>>)
    \/ \E key \in MixKeys : Len(b_ops) < MaxMixOps /\ BatchDelete(key)
    \/ \E failAt \in 0..Len(b_ops) : BatchWrite(failAt)
    \/ \E failAt \in 0..Len(b_ops) : BatchWriteSync(failAt)
    \/ BatchClose

\* Writes through the handle and through batches, on both tiers, for both
\* bodies of MongoDB.set.
SpecMix == Init /\ [][NextMix]_vars

\* The keys and values of a caller that holds two handles.
OpenKeys == {<<1>>, <<2>>}

OpenValues == {<<>>, <<7>>}

NextOpen ==
    \/ \E name \in Names : DB2Open(name)
    \/ \E key \in OpenKeys : DBGet(key)
    \/ \E key \in OpenKeys, value \in OpenValues : DBSet(key, value)
    \/ \E key \in OpenKeys : DBDelete(key)
    \/ \E key \in OpenKeys : DB2Get(key)
    \/ \E key \in OpenKeys, value \in OpenValues : DB2Set(key, value)
    \/ \E key \in OpenKeys : DB2Delete(key)

\* Two handles on one server, the second opened under the name of the first
\* or under another name.
SpecOpen == Init /\ [][NextOpen]_vars

NextFlush ==
    \/ \E g \in Goroutines, key \in FlushKeys : GSet(g, key)
    \/ \E g \in Goroutines, key \in FlushDeleteKeys : GDelete(g, key)
    \/ \E g \in Goroutines : GWrite(g)
    \/ \E g \in Goroutines : GApply(g)
    \/ \E g \in Goroutines : GReturn(g)

\* Two goroutines fill a batch each and flush it, on a store that holds no
\* record, in any interleaving of their steps and the server's.
SpecFlush == InitBatch /\ [][NextFlush]_vars

\* Every call the caller can make.  The specifications above each take a part
\* of it, small enough to be explored in full.
Next == NextKV \/ NextBatch \/ NextIter \/ NextMix \/ NextOpen \/ NextFlush

Spec == Init /\ [][Next]_vars

----------------------------------------------------------------------------
(* The properties.                                                          *)

SetOps == {"Set", "SetSync"}

DeleteOps == {"Delete", "DeleteSync"}

\* C1: for every non-empty key k and non-nil value v (the zero-length value
\* included), once Set(k, v) or SetSync(k, v) has returned without error,
\* Get(k) returns exactly v with no error and Has(k) returns true, and this
\* stays so over every later call that is no write or delete of k.
C1_SetThenGet ==
    [][ /\ (last'.op \in SetOps /\ last'.err = "ok") =>
              /\ Get(coll', last'.key) = [ret |-> last'.value, err |-> "ok"]
              /\ Has(coll', last'.key) = [ret |-> TRUE, err |-> "ok"]
        /\ \A k \in Keys :
              ~(last'.op \in SetOps \cup DeleteOps /\ last'.key = k) =>
                  /\ Get(coll', k) = Get(coll, k)
                  /\ Has(coll', k) = Has(coll, k) ]_vars

\* C1's case: SetSync has stored the zero-length value and Has reports the key.
C1_Witness ==
    /\ last.op = "SetSync"
    /\ last.err = "ok"
    /\ last.value = EmptyBytes
    /\ Get(coll, last.key).ret = EmptyBytes
    /\ Has(coll, last.key).ret

\* C2: Delete(k) and DeleteSync(k) with a non-empty key return no error,
\* whether a record for k existed or not, and Get(k) after them returns the
\* not-found result (nil value, no error).
C2_DeleteThenGet ==
    (last.op \in DeleteOps /\ len(last.key) # 0) =>
        /\ last.err = "ok"
        /\ Get(coll, last.key) = [ret |-> Nil, err |-> "ok"]
        /\ Has(coll, last.key) = [ret |-> FALSE, err |-> "ok"]

\* C2's case: a Delete that removed an existing record, other records left.
C2_Witness ==
    /\ last.op = "Delete"
    /\ last.flag
    /\ last.err = "ok"
    /\ coll # {}

\* C3: Get, Set, SetSync, Delete and DeleteSync with an empty key fail with
\* the invalid-key error; Set and SetSync with a non-empty key and a nil value
\* fail with the invalid-value error; each such call leaves the stored
\* documents unchanged.
C3_InvalidArguments ==
    [][ /\ (last'.op \in {"Get"} \cup SetOps \cup DeleteOps /\ len(last'.key) = 0) =>
              (last'.err = "errKeyEmpty" /\ coll' = coll)
        /\ (last'.op \in SetOps /\ len(last'.key) # 0 /\ last'.value = Nil) =>
              (last'.err = "errValueNil" /\ coll' = coll) ]_vars

\* C3's case: a SetSync with an empty key and a nil value, refused as an
\* invalid key over a store that holds records.
C3_Witness ==
    /\ last.op = "SetSync"
    /\ last.key = EmptyBytes
    /\ last.value = Nil
    /\ last.err = "errKeyEmpty"
    /\ coll # {}

WriteOps == {"BatchWrite", "BatchWriteSync"}

\* The calls a batch accepted, made one at a time on the store handle.
RECURSIVE ApplyIssued(_, _, _)
ApplyIssued(c, v, issued) ==
    IF Len(issued) = 0 THEN c
    ELSE ApplyIssued(
             IF Head(issued).op = "Set"
             THEN set(c, v, Head(issued).key, Head(issued).value, FALSE).coll
             ELSE delete(c, Head(issued).key, FALSE).coll,
             v, Tail(issued))

IssuedSet(key, value) == [op |-> "Set", key |-> key, value |-> value]

IssuedDelete(key) == [op |-> "Delete", key |-> key, value |-> Nil]

\* C4: when Write() or WriteSync() of a batch succeeds, the record set it
\* leaves is the one that applying the batch's Set and Delete calls one at a
\* time, in call order, to the record set before the flush gives; Set(k, a),
\* Delete(k), Set(k, b) leaves Get(k) = b, and Set(k, a), Delete(k) leaves k
\* absent.
C4_FlushInOrder ==
    [][ (last'.op \in WriteOps /\ last'.err = "ok") =>
          /\ Records(coll') = Records(ApplyIssued(coll, variant, b_issued))
          /\ \A k \in BatchKeys, a \in Values, b \in Values :
                /\ b_issued = <<IssuedSet(k, a), IssuedDelete(k), IssuedSet(k, b)>> =>
                       Get(coll', k) = [ret |-> b, err |-> "ok"]
                /\ b_issued = <<IssuedSet(k, a), IssuedDelete(k)>> =>
                       Get(coll', k) = [ret |-> Nil, err |-> "ok"] ]_vars

\* C4's case: Set(k, a), Delete(k), Set(k, b) has been flushed by Write() and
\* Get(k) gives b.
C4_Witness ==
    /\ last.op = "BatchWrite"
    /\ last.err = "ok"
    /\ last.flag
    /\ b_issued = <<IssuedSet(<<1>>, <<7>>), IssuedDelete(<<1>>), IssuedSet(<<1>>, <<>>)>>
    /\ Get(coll, <<1>>) = [ret |-> <<>>, err |-> "ok"]

\* C5: the call that follows a Write(), a WriteSync() or a Close() on a
\* batch, be it Set, Delete, Write or WriteSync and whatever its arguments,
\* fails with the batch-closed error and appends nothing.
C5_EndedBatchRefusesAll ==
    [][ (/\ last.op \in WriteOps \cup {"BatchClose"}
         /\ last'.op \in {"BatchSet", "BatchDelete"} \cup WriteOps) =>
            (last'.err = "errBatchClosed" /\ b_ops' = b_ops) ]_vars

\* C6: every Write() or WriteSync() on an open batch leaves it closed: with
\* a successful flush, with an empty operation list (BulkWrite is not called)
\* and with a failure of the backing store, whose error is returned; a Write
\* that follows a Write fails with batch-closed and sends nothing.
C6_WriteAlwaysCloses ==
    [][ /\ (last'.op \in WriteOps /\ ~b_closed) =>
              /\ b_closed'
              /\ Len(b_ops) = 0 => (~last'.flag /\ last'.err = "ok" /\ coll' = coll)
        /\ (last.op \in WriteOps /\ last'.op \in WriteOps) =>
              (last'.err = "errBatchClosed" /\ ~last'.flag /\ coll' = coll) ]_vars

\* The stored keys, decoded.
StoredKeys(c) == {r.key : r \in Records(c)}

\* start <= k < end in byte-lexicographic order, an absent bound not bounding.
InDomain(k, start, end) ==
    /\ start # Nil => ~BytesLess(k, start)
    /\ end # Nil => BytesLess(k, end)

\* The keys of S in ascending byte-lexicographic order.
RECURSIVE Ascending(_)
Ascending(S) ==
    IF S = {} THEN <<>>
    ELSE LET least == CHOOSE k \in S : \A j \in S \ {k} : BytesLess(k, j)
         IN  <<least>> \o Ascending(S \ {least})

Reversed(q) == [i \in 1..Len(q) |-> q[Len(q) + 1 - i]]

\* C7: over an unchanged collection, stepping Iterator(start, end) with
\* Valid/Key/Next until Valid is false yields exactly the stored keys k with
\* start <= k < end in byte-lexicographic order, each once, ascending;
\* ReverseIterator(start, end) yields the same keys descending.
C7_ScanYieldsRange ==
    (it_live /\ last.op = "Valid" /\ ~last.flag) =>
        EmittedKeys =
            LET inRange == Ascending({k \in StoredKeys(coll) : InDomain(k, it_start, it_end)})
            IN  IF it_isReverse THEN Reversed(inRange) ELSE inRange

\* C8: every key Key() returns lies in the iterator's domain, and the keys
\* returned are non-decreasing for a forward iterator and non-increasing for
\* a reverse one, whatever writes happen between the iterator's steps.
C8_KeysInDomainAndMonotonic ==
    /\ (last.op = "Key" /\ last.err = "ok") => InDomain(last.ret, it_start, it_end)
    /\ \A i \in 1..(Len(it_emitted) - 1) :
          IF it_isReverse
          THEN ~BytesLess(it_emitted[i].key, it_emitted[i + 1].key)
          ELSE ~BytesLess(it_emitted[i + 1].key, it_emitted[i].key)

\* C9: Iterator and ReverseIterator with a bound that is present and empty
\* fail with the invalid-key error, return no iterator and open no cursor; an
\* absent bound is accepted: the iterator is returned with the bounds as
\* given, and with both bounds absent its cursor holds every stored record.
C9_EmptyBoundRefused ==
    last.op \in IterOps =>
        IF last.key = EmptyBytes \/ last.value = EmptyBytes
        THEN /\ last.err = "errKeyEmpty"
             /\ ~it_live
             /\ ~last.flag
             /\ it_cursor = NoCursor
        ELSE /\ last.err = "ok"
             /\ it_live
             /\ last.flag
             /\ it_start = last.key
             /\ it_end = last.value
             /\ (last.key = Nil /\ last.value = Nil) =>
                    {it_cursor.docs[i] : i \in 1..Len(it_cursor.docs)} = coll

\* C9's case: ReverseIterator(nil, []) refused over a store that holds records.
C9_Witness ==
    /\ last.op = "ReverseIterator"
    /\ last.key = Nil
    /\ last.value = EmptyBytes
    /\ last.err = "errKeyEmpty"
    /\ coll # {}

\* C10: Key(), Value() and Next() on an iterator that is not valid (Valid()
\* has just returned false, or would return false now) panic: they return no
\* key or value and leave the cursor where it is.
C10_InvalidUsePanics ==
    [][ (/\ last'.op \in {"Key", "Value", "Next"}
         /\ \/ ~Valid(Itr).ret
            \/ (last.op = "Valid" /\ ~last.flag)) =>
            /\ last'.err = "panic"
            /\ last'.ret = Nil
            /\ it_cursor' = it_cursor
            /\ it_emitted' = it_emitted ]_vars

\* C10's case: Key() panics on an iterator that Next() has run off the end of
\* a non-empty result.
C10_Witness ==
    /\ last.op = "Key"
    /\ last.err = "panic"
    /\ Len(it_cursor.docs) > 0
    /\ it_cursor.pos = Len(it_cursor.docs)
    /\ Len(it_emitted) > 0

\* What Get, Has and a full scan in each direction return over the documents c.
Observed(c) ==
    [get     |-> [k \in Keys |-> Get(c, k)],
     has     |-> [k \in Keys |-> Has(c, k)],
     forward |-> createIterator(c, Nil, Nil, 1),
     reverse |-> createIterator(c, Nil, Nil, -1)]

\* C11: a successful SetSync, DeleteSync or WriteSync is observed by Get, Has
\* and the iterators exactly as the same call made through Set, Delete or
\* Write would be; a write through either tier replaces or removes the record
\* the other tier wrote for the key.
C11_TiersShareRecords ==
    [][ /\ (last'.op = "SetSync" /\ last'.err = "ok") =>
              Observed(coll') = Observed(set(coll, variant, last'.key, last'.value, FALSE).coll)
        /\ (last'.op = "DeleteSync" /\ last'.err = "ok") =>
              Observed(coll') = Observed(delete(coll, last'.key, FALSE).coll)
        /\ (last'.op = "BatchWriteSync" /\ last'.err = "ok") =>
              Observed(coll') = Observed(write(coll, b_ops, b_closed, FALSE, 0).coll)
        /\ (last'.op \in SetOps /\ last'.err = "ok") =>
              Get(coll', last'.key) = [ret |-> last'.value, err |-> "ok"]
        /\ (last'.op \in DeleteOps /\ last'.err = "ok") =>
              Get(coll', last'.key) = [ret |-> Nil, err |-> "ok"] ]_vars

\* SetSync has replaced the value of a record while another record is stored.
C11_Witness ==
    /\ last.op = "SetSync"
    /\ last.err = "ok"
    /\ Get(coll, last.key) = [ret |-> <<>>, err |-> "ok"]
    /\ Cardinality(coll) = 2

\* C12: Set(k, v) made a second time leaves the documents as the first call
\* left them, with exactly one record for k; Delete(k) made a second time, k
\* then having no record, leaves the documents as the first call left them.
C12_Idempotent ==
    [][ /\ ( /\ last.op \in SetOps /\ last.err = "ok"
              /\ last'.op \in SetOps /\ last'.err = "ok"
              /\ last'.key = last.key /\ last'.value = last.value ) =>
              ( /\ coll' = coll
                /\ Records(coll') = Records(coll)
                /\ Cardinality(Matching(coll', last'.key)) = 1 )
        /\ ( /\ last.op \in DeleteOps /\ last.err = "ok"
              /\ last'.op \in DeleteOps /\ last'.err = "ok"
              /\ last'.key = last.key ) =>
              ( /\ ~last'.flag
                /\ coll' = coll
                /\ Matching(coll', last'.key) = {} ) ]_vars

\* Delete has returned without error for a key that had no record, while
\* records of other keys are stored.
C12_Witness ==
    /\ last.op \in DeleteOps
    /\ last.err = "ok"
    /\ ~last.flag
    /\ Cardinality(coll) >= 2

\* C13: NewMongoDB under the name of an open handle returns a handle and no
\* error, and the two handles address the same records: a record written
\* through one is what Get returns through the other.
C13_SecondHandleShares ==
    [][ /\ last'.op = "NewMongoDB" => (last'.err = "ok" /\ db2' # NoDB)
        /\ (last'.op = "DB2.Set" /\ last'.err = "ok"
               /\ db2.collectionName = db.collectionName) =>
              Get(coll', last'.key) = [ret |-> last'.value, err |-> "ok"]
        /\ (last'.op = "Set" /\ last'.err = "ok"
               /\ db2.collectionName = db.collectionName) =>
              Get(Docs(db2.collection)', last'.key) = [ret |-> last'.value, err |-> "ok"]
        /\ (last'.op = "DB2.Get" /\ db2.collectionName = db.collectionName) =>
              (last'.ret = Get(coll, last'.key).ret /\ last'.err = "ok") ]_vars

\* Through a second handle opened under the name of the first, Get has
\* returned a stored value.
C13_Witness ==
    /\ db2.collectionName = db.collectionName
    /\ last.op = "DB2.Get"
    /\ last.ret = <<7>>

\* C14: once Valid() has returned false, every later Valid() returns false,
\* whatever is written to or deleted from the collection in between: a Valid()
\* that returns false leaves the iterator marked invalid, no call on the
\* iterator or the store clears the mark, and Valid() on a marked iterator
\* returns false.
C14_InvalidIsFinal ==
    [][ /\ (last'.op = "Valid" /\ ~last'.flag) => it_isInvalid'
        /\ (it_live /\ it_isInvalid) => (it_live' /\ it_isInvalid')
        /\ (it_live /\ it_isInvalid /\ last'.op = "Valid") => ~last'.flag
        /\ (it_live /\ it_isInvalid) => ~Valid(Itr).ret /\ ~Valid(Itr)'.ret ]_vars

\* Valid() has returned false on an iterator that Next() took to the end of a
\* cursor of two documents, both still stored.
C14_Witness ==
    /\ last.op = "Valid"
    /\ ~last.flag
    /\ it_lastErr = "ok"
    /\ it_start = Nil
    /\ it_end = Nil
    /\ Len(it_cursor.docs) = 2
    /\ it_cursor.pos = 2
    /\ Cardinality(coll) >= 2

\* C15: Set and Delete on a batch change no stored record; Close() changes no
\* stored record, returns no error and leaves the batch closed with nothing
\* buffered; and no call on a closed batch changes a stored record, so what a
\* batch buffered before a Close() without Write is never stored.
C15_BufferedUntilWrite ==
    [][ /\ last'.op \in {"BatchSet", "BatchDelete"} => store' = store
        /\ last'.op = "BatchClose" =>
              ( /\ store' = store
                /\ last'.err = "ok"
                /\ b_closed'
                /\ b_ops' = <<>> )
        /\ (b_closed /\ last'.op # "NewBatch") =>
              (store' = store /\ b_closed' /\ b_ops' = <<>>) ]_vars

\* A Set has been buffered behind another operation for a key that has no
\* stored record, other records being stored.
C15_Witness ==
    /\ last.op = "BatchSet"
    /\ last.err = "ok"
    /\ ~b_closed
    /\ Len(b_ops) >= 2
    /\ Get(coll, last.key) = [ret |-> Nil, err |-> "ok"]
    /\ coll # {}

\* C16: when two batches have been flushed on the store, at the same time or
\* one after the other, the stored documents are those left by all the
\* operations of one batch in order followed by all the operations of the
\* other, for one of the two orders.
C16_FlushesSerial ==
    (\A g \in Goroutines : g_batch[g].pc = "returned") =>
        \/ coll = ApplyModels(ApplyModels({}, g_batch["g1"].sent), g_batch["g2"].sent)
        \/ coll = ApplyModels(ApplyModels({}, g_batch["g2"].sent), g_batch["g1"].sent)

\* C17: Error() returns none on an iterator whose cursor holds no record,
\* before and after Valid() has returned false, and on an iterator that Next()
\* has taken past the last record of its cursor.
C17_NoErrorOnExhaustion ==
    it_live =>
        /\ Len(it_cursor.docs) = 0 => Error(Itr) = "ok"
        /\ (Len(it_cursor.docs) > 0 /\ it_isInvalid) => Error(Itr) = "ok"

\* The derived key fields a document carries.
DerivedFields(d) == {f \in {"keyString", "keyHex"} : d[f] # BsonAbsent}

\* What a derived key field holds for a raw key.
Projection(f, key) ==
    IF f = "keyHex" THEN BsonString(HexEncodeToString(key)) ELSE BsonString(key)

\* C18: after any sequence of Set, SetSync and batch flushes, every stored
\* record carries a derived key field, the same one as every other stored
\* record, and it holds the projection of the record's own raw key.
C18_DerivedKeyUniform ==
    /\ \A d \in coll :
          /\ DerivedFields(d) # {}
          /\ \A f \in DerivedFields(d) : d[f] = Projection(f, DecodeBytes(d.key))
    /\ \A d, e \in coll : DerivedFields(d) = DerivedFields(e)

\* C19: Valid() returns what Valid() returned before as long as Next() has
\* not been called: a call of Valid() leaves the cursor where it was, and
\* after it, as after every call other than Next(), Valid(), Key() and
\* Value() answer what they would have answered before it.
C19_ValidRepeatable ==
    [][ /\ last'.op = "Valid" =>
              ( /\ last'.flag = Valid(Itr).ret
                /\ it_cursor' = it_cursor
                /\ Valid(Itr').ret = last'.flag )
        /\ (it_live /\ last'.op \notin {"Next", "Iterator", "ReverseIterator"}) =>
              ( /\ it_cursor' = it_cursor
                /\ Valid(Itr').ret = Valid(Itr).ret
                /\ Key(Itr').err = Key(Itr).err
                /\ Key(Itr').ret = Key(Itr).ret
                /\ Value(Itr').err = Value(Itr).err
                /\ Value(Itr').ret = Value(Itr).ret ) ]_vars

\* Valid() has returned true on the first of two documents of the cursor.
C19_Witness ==
    /\ last.op = "Valid"
    /\ last.flag
    /\ it_cursor.pos = 1
    /\ Len(it_cursor.docs) = 2
    /\ Key(Itr).ret = DecodeDoc(it_cursor.docs[1]).key

\* C20: in the loop for ; itr.Valid(); itr.Next() { itr.Key() } over an
\* unchanged collection no call panics, and when Next() has been called (once
\* after each key read) it has been called at most as many times as there are
\* stored keys k with start <= k < end in byte-lexicographic order, so
\* Valid() is false after at most that many calls.
C20_ScanTerminates ==
    it_live =>
        /\ last.err # "panic"
        /\ last.op = "Next" =>
              Len(it_emitted) <=
                  Cardinality({k \in StoredKeys(coll) : InDomain(k, it_start, it_end)})

====
